---- MODULE Spec2Model ----
(***************************************************************************)
(* titiler-pgstac: the search registry reached through SearchParams, the   *)
(* item cache around get_stac_item, and the ColorMapParams dependency.     *)
(***************************************************************************)
EXTENDS Integers, Sequences, FiniteSets, TLC

VARIABLES
    registry,   \* the searches table: a set of RegisteredSearch rows
    regCount,   \* number of register calls served (the registration clock)
    regLog,     \* history: what each register call was given and returned
    resp,       \* the response of the last mosaic request
    now,        \* the cache timer
    cache,      \* TTLCache data: key -> [item, expires], for the keys held
    links,      \* TTLCache access order, least recently used first
    pc,         \* per caller: position inside the cached get_stac_item wrapper
    ckey,       \* per caller: the (collection, item) it asked for
    cseen,      \* per caller: what its cache check returned
    cquery,     \* per caller: the search its query carried
    cfetched,   \* per caller: the catalog answer its query got
    cresult,    \* per caller: what the call returned or raised
    nfetch,     \* per caller: catalog queries issued by the current call
    cftime,     \* per caller: when the call in flight queried the catalog
    catalog,    \* the catalog's answer per (collection, item)
    cmIn,       \* ColorMapParams arguments
    cmOut,      \* ColorMapParams outcome
    rounding,   \* how the float arithmetic of the build rounds a whole-number level
    compSearch, \* compositing: the items the external search returned, in its order
    compAssets, \* compositing: the AssetRecord list resolution returned
    compExit,   \* compositing: the exitwhenfull parameter of the request
    compTile,   \* compositing: pixel -> id of the asset that filled it
    compRead,   \* compositing: ids of the assets read so far, in reading order
    compPc,     \* compositing: idle, running or done
    cogIn,      \* render_cog arguments and the build's writer
    cogOut      \* the COG render_cog wrote

regVars == <<registry, regCount, regLog, resp>>
cacheVars == <<now, cache, links, pc, ckey, cseen, cquery, cfetched, cresult, nfetch, cftime,
               catalog>>
cmVars == <<cmIn, cmOut, rounding>>
compVars == <<compSearch, compAssets, compExit, compTile, compRead, compPc>>
cogVars == <<cogIn, cogOut>>
vars == <<registry, regCount, regLog, resp, now, cache, links, pc, ckey, cseen,
          cquery, cfetched, cresult, nfetch, cftime, catalog, cmIn, cmOut, rounding,
          compSearch, compAssets, compExit, compTile, compRead, compPc, cogIn, cogOut>>

None == "None"

(***************************************************************************)
(* Bounds                                                                  *)
(***************************************************************************)
MaxRegs == 2
MaxTime == 3
TTL == 2
MaxSize == 2

(***************************************************************************)
(* Register request bodies: a JSON object is a sequence of key/value pairs *)
(* in the order the client wrote them; a value may be null (None).         *)
(***************************************************************************)
SearchFieldSet == {"collections", "bbox"}

FieldValues(f) == IF f = "collections" THEN {"noaa"} ELSE {"east"}

MetadataNames == {"mymosaic"}

PairsOver(fs) ==
    { s \in [1..Cardinality(fs) -> {<<f, v>> : f \in fs, v \in {"noaa", "east", None}}] :
        /\ \A i \in DOMAIN s : s[i][1] \in fs /\ (s[i][2] = None \/ s[i][2] \in FieldValues(s[i][1]))
        /\ \A i, j \in DOMAIN s : i # j => s[i][1] # s[j][1] }

BodyPairs == UNION { PairsOver(fs) : fs \in SUBSET SearchFieldSet }

MetadataInputs ==
    { [given |-> FALSE, name |-> None] } \cup
    { [given |-> TRUE, name |-> n] : n \in MetadataNames \cup {None} }

Bodies == [pairs : BodyPairs, metadata : MetadataInputs]

\* The content of a request, independent of how it was written: the pairs
\* whose value is not null.
Sem(body) == { body.pairs[i] : i \in { j \in DOMAIN body.pairs : body.pairs[j][2] # None } }

MetaSem(body) == IF body.metadata.name = None THEN {} ELSE { <<"name", body.metadata.name>> }

\* How a request was written: with an explicit null, with its keys in another
\* order than the model's, or plainly.
ModelFieldOrder == <<"collections", "bbox">>

Form(body) ==
    IF \E i \in DOMAIN body.pairs : body.pairs[i][2] = None THEN "nulls"
    ELSE IF Len(body.pairs) = Len(ModelFieldOrder) /\ body.pairs[1][1] # ModelFieldOrder[1] THEN "reordered"
    ELSE "plain"

DictPairs(d) == { <<k, d[k]>> : k \in DOMAIN d }

(***************************************************************************)
(* SearchParams                                                            *)
(***************************************************************************)
\* body: model.RegisterMosaic -- every model field, None where the request
\* has none or null; metadata defaults to Metadata() with type "mosaic".
ParseBody(body) ==
    [ search |-> [ f \in SearchFieldSet |->
                     IF \E i \in DOMAIN body.pairs : body.pairs[i][1] = f
                     THEN body.pairs[CHOOSE i \in DOMAIN body.pairs : body.pairs[i][1] = f][2]
                     ELSE None ],
      metadata |-> [ type |-> "mosaic", name |-> body.metadata.name ] ]

\* model.PgSTACSearch(**search): the fields given, None for the others.
PgSTACSearch(kwargs) ==
    [ f \in SearchFieldSet |-> IF f \in DOMAIN kwargs THEN kwargs[f] ELSE None ]

\* A plausible slip: the metadata of the body is not handed on.
SearchParamsDropsMetadata(inst) ==
    LET search == [ f \in { g \in SearchFieldSet : inst.search[g] # None } |-> inst.search[f] ]
    IN  <<PgSTACSearch(search), [ type |-> "mosaic", name |-> None ]>>

SearchParams(inst) ==
    LET search == [ f \in { g \in SearchFieldSet : inst.search[g] # None } |-> inst.search[f] ]
    IN  <<PgSTACSearch(search), inst.metadata>>

(***************************************************************************)
(* Search identity                                                         *)
(***************************************************************************)
\* jsonb key order: shorter keys first, then bytewise.
SearchKeyOrder == <<"bbox", "collections">>
MetaKeyOrder == <<"name", "type">>

\* .json(by_alias=True, exclude_none=True) read as jsonb: the pairs present,
\* in jsonb key order.
RECURSIVE JsonPairs(_, _)
JsonPairs(inst, order) ==
    IF order = <<>> THEN <<>>
    ELSE LET k == Head(order)
         IN  (IF inst[k] = None THEN <<>> ELSE << <<k, inst[k]>> >>) \o JsonPairs(inst, Tail(order))

Tokens == << <<"bbox", "east">>, <<"collections", "noaa">>,
             <<"name", "mymosaic">>, <<"type", "mosaic">> >>

TokenCode(p) == CHOOSE i \in DOMAIN Tokens : Tokens[i] = p

\* The digest of a text: injective on the texts of the model.
RECURSIVE Digest(_, _)
Digest(h, text) ==
    IF text = <<>> THEN h
    ELSE Digest(h * (Len(Tokens) + 1) + TokenCode(Head(text)), Tail(text))

\* A plausible slip: the digest is taken over the search alone.
SearchHashWithoutMetadata(search, metadata) ==
    Digest(0, JsonPairs(search, SearchKeyOrder) \o << <<"type", "mosaic">> >>)

\* A plausible slip: the digest covers the row's registration time.
SearchHashWithTimestamp(search, metadata) ==
    Digest(regCount, JsonPairs(search, SearchKeyOrder) \o JsonPairs(metadata, MetaKeyOrder))

\* searchid = md5(search text || metadata text)
SearchHash(search, metadata) ==
    Digest(0, JsonPairs(search, SearchKeyOrder) \o JsonPairs(metadata, MetaKeyOrder))

\* "aaaaaaaaaaaaaaaaaaaaaaaaaaaaaaaa": well formed, the digest of no request.
UnknownId == 0

Present(inst) == [ k \in { f \in DOMAIN inst : inst[f] # None } |-> inst[k] ]

BodyId(body) ==
    LET sp == SearchParams(ParseBody(body)) IN SearchHash(sp[1], sp[2])

\* The searchid of the search with no filter and no metadata.
EmptySearchId == BodyId([pairs |-> <<>>, metadata |-> [given |-> FALSE, name |-> None]])

\* The ids requests carry: the registered ones and two others.
RequestIds == { r.id : r \in registry } \cup { UnknownId, EmptySearchId }

(***************************************************************************)
(* The catalog the registered searches run against                         *)
(***************************************************************************)
Cells == {"w", "e"}

\* Items in the order the catalog's search returns them.
CatalogItems ==
    << [id |-> "A", collection |-> "landsat", cells |-> {"w"}],
       [id |-> "B", collection |-> "noaa", cells |-> {"e"}],
       [id |-> "C", collection |-> "noaa", cells |-> {"e"}] >>

BBoxCells(b) == IF b = "east" THEN {"e"} ELSE Cells

\* A point or a tile, by the cells it touches.
Regions == { {"w"}, {"e"} }

EmptyDict == [ k \in {} |-> None ]

(***************************************************************************)
(* Registry: register, lookup, resolution, rendering                       *)
(***************************************************************************)
\* register_search: insert unless a row with this searchid exists.
Upsert(rows, id, search, metadata, at) ==
    IF \E r \in rows : r.id = id THEN rows
    ELSE rows \cup { [id |-> id, search |-> search, metadata |-> metadata, at |-> at] }

Lookup(id) == { r \in registry : r.id = id }

\* A request: the operation, the searchid, the point or tile, whether an
\* asset or expression selector came with it; for register, how it was written.
Req(op, id, region, selector) ==
    [ op |-> op, id |-> id, region |-> region, selector |-> selector, form |-> "plain" ]

RegisterReq(id, body) ==
    [ op |-> "register", id |-> id, region |-> {}, selector |-> FALSE, form |-> Form(body) ]

NotFoundResp(req) ==
    [ req |-> req, status |-> 404, kind |-> "NotFound",
      detail |-> <<"SearchId", req.id, "not found">>,
      search |-> EmptyDict, metadata |-> EmptyDict, assets |-> <<>> ]

OkResp(req, search, metadata, assets) ==
    [ req |-> req, status |-> 200, kind |-> "ok", detail |-> <<>>,
      search |-> search, metadata |-> metadata, assets |-> assets ]

ErrResp(req, status, kind) ==
    [ req |-> req, status |-> status, kind |-> kind, detail |-> <<kind>>,
      search |-> EmptyDict, metadata |-> EmptyDict, assets |-> <<>> ]

Matches(it, search, region) ==
    /\ ("collections" \in DOMAIN search => it.collection = search["collections"])
    /\ ("bbox" \in DOMAIN search => it.cells \cap BBoxCells(search["bbox"]) # {})
    /\ it.cells \cap region # {}

AssetRecord(it) == [ id |-> it.id, bbox |-> it.cells, collection |-> it.collection ]

RECURSIVE MapAssets(_)
MapAssets(items) ==
    IF items = <<>> THEN <<>> ELSE <<AssetRecord(Head(items))>> \o MapAssets(Tail(items))

\* A plausible slip: the search's own bounding box is not applied.
ResolveIgnoresBBox(row, region) ==
    MapAssets(SelectSeq(CatalogItems,
        LAMBDA it : ("collections" \in DOMAIN row.search => it.collection = row.search["collections"])
                    /\ it.cells \cap region # {}))

\* The ordered assets of a registered search for a point or a tile.
Resolve(row, region) ==
    IF "bbox" \in DOMAIN row.search /\ BBoxCells(row.search["bbox"]) \cap region = {}
    THEN <<>>
    ELSE MapAssets(SelectSeq(CatalogItems, LAMBDA it : Matches(it, row.search, region)))

Register(body) ==
    /\ regCount < MaxRegs
    /\ LET sp == SearchParams(ParseBody(body))
           id == SearchHash(sp[1], sp[2])
       IN  /\ registry' = Upsert(registry, id, Present(sp[1]), Present(sp[2]), regCount + 1)
           /\ regLog' = regLog \cup { [ n |-> regCount + 1, sem |-> Sem(body),
                                        msem |-> MetaSem(body), id |-> id ] }
           /\ resp' = OkResp(RegisterReq(id, body), EmptyDict, EmptyDict, <<>>)
    /\ regCount' = regCount + 1
    /\ UNCHANGED <<cacheVars, cmVars, compVars, cogVars>>

InfoResp(req) ==
    IF Lookup(req.id) = {} THEN NotFoundResp(req)
    ELSE LET row == CHOOSE r \in Lookup(req.id) : TRUE
         IN  OkResp(req, row.search, row.metadata, <<>>)

Info(id) ==
    /\ resp' = InfoResp(Req("info", id, {}, FALSE))
    /\ UNCHANGED <<registry, regCount, regLog, cacheVars, cmVars, compVars, cogVars>>

\* A plausible slip: an unknown searchid resolves to no assets.
AssetsRespUnknownIsEmpty(req) ==
    IF Lookup(req.id) = {} THEN OkResp(req, EmptyDict, EmptyDict, <<>>)
    ELSE OkResp(req, EmptyDict, EmptyDict, Resolve(CHOOSE r \in Lookup(req.id) : TRUE, req.region))

AssetsResp(req) ==
    IF Lookup(req.id) = {} THEN NotFoundResp(req)
    ELSE OkResp(req, EmptyDict, EmptyDict, Resolve(CHOOSE r \in Lookup(req.id) : TRUE, req.region))

AssetsForPoint(id, region) ==
    /\ resp' = AssetsResp(Req("point", id, region, FALSE))
    /\ UNCHANGED <<registry, regCount, regLog, cacheVars, cmVars, compVars, cogVars>>

AssetsForTile(id, region) ==
    /\ resp' = AssetsResp(Req("tile_assets", id, region, FALSE))
    /\ UNCHANGED <<registry, regCount, regLog, cacheVars, cmVars, compVars, cogVars>>

\* Tile and statistics: the search is looked up, a selector (assets or
\* expression) is required, and no asset to read is NoAssetFound.
RenderResp(req) ==
    IF Lookup(req.id) = {} THEN NotFoundResp(req)
    ELSE IF ~req.selector THEN ErrResp(req, 400, "InvalidInput")
    ELSE LET assets == Resolve(CHOOSE r \in Lookup(req.id) : TRUE, req.region)
         IN  IF assets = <<>> THEN ErrResp(req, 404, "NoAssetFound")
             ELSE OkResp(req, EmptyDict, EmptyDict, assets)

Tile(id, region, selector) ==
    /\ resp' = RenderResp(Req("tile", id, region, selector))
    /\ UNCHANGED <<registry, regCount, regLog, cacheVars, cmVars, compVars, cogVars>>

Statistics(id, region, selector) ==
    /\ resp' = RenderResp(Req("statistics", id, region, selector))
    /\ UNCHANGED <<registry, regCount, regLog, cacheVars, cmVars, compVars, cogVars>>

NextRegistry ==
    \/ \E body \in Bodies : Register(body)
    \/ \E id \in RequestIds : Info(id)
    \/ \E id \in RequestIds, region \in Regions : AssetsForPoint(id, region)
    \/ \E id \in RequestIds, region \in Regions : AssetsForTile(id, region)
    \/ \E id \in RequestIds, region \in Regions, selector \in BOOLEAN : Tile(id, region, selector)
    \/ \E id \in RequestIds, region \in Regions, selector \in BOOLEAN : Statistics(id, region, selector)


(***************************************************************************)
(* The item cache: cached(TTLCache(maxsize, ttl), key=hashkey(collection,  *)
(* item)) around get_stac_item, with no lock.                              *)
(***************************************************************************)
Callers == {"t1", "t2"}

Keys == { <<"c", i>> : i \in {"i1", "i2", "late", "dup", "nolist", "null"} }

\* Each caller reaches the catalog through a connection pool of its own.
Pool(c) == IF c = "t1" THEN "p1" ELSE "p2"

\* key=lambda pool, collection, item: hashkey(collection, item)
HashKey(pool, collection, item) == <<collection, item>>

Feature(key) == [ type |-> "Feature", id |-> key[2], collection |-> key[1] ]

Answer(isNull, hasFeatures, features) ==
    [ null |-> isNull, hasFeatures |-> hasFeatures, features |-> features ]

NoAnswer == Answer(TRUE, FALSE, <<>>)

\* What pgstac.search answers for ids=[item], collections=[collection].
InitialCatalog ==
    [ k \in Keys |->
        CASE k[2] \in {"i1", "i2"} -> Answer(FALSE, TRUE, <<Feature(k)>>)
          [] k[2] = "late"         -> Answer(FALSE, TRUE, <<>>)
          [] k[2] = "dup"          -> Answer(FALSE, TRUE, <<Feature(k), Feature(k)>>)
          [] k[2] = "nolist"       -> Answer(FALSE, FALSE, <<>>)
          [] OTHER                 -> NoAnswer ]

NoItem == [ id |-> None, collection |-> None ]
NoQuery == [ ids |-> <<>>, collections |-> <<>> ]
NoResult == [ kind |-> "none", status |-> 0, item |-> NoItem, detail |-> <<>> ]

ItemResult(item) == [ kind |-> "item", status |-> 200, item |-> item, detail |-> <<>> ]

\* An exception of the query, passed on to the caller
QueryError == [ kind |-> "QueryFailed", status |-> 500, item |-> NoItem, detail |-> <<>> ]

\* HTTPException(404, f"No item '{item}' found in '{collection}' collection")
ItemNotFound(collection, item) ==
    [ kind |-> "NotFound", status |-> 404, item |-> NoItem,
      detail |-> <<"No item", item, "found in", collection, "collection">> ]

\* model.PgSTACSearch(ids=[item], collections=[collection])
ItemSearch(collection, item) == [ ids |-> <<item>>, collections |-> <<collection>> ]

\* cursor.execute("SELECT * FROM pgstac.search(%s) LIMIT 1;"); fetchone()["search"]
CatalogSearch(search) == catalog[<<search.collections[1], search.ids[1]>>]

\* A plausible slip: a duplicate match is resolved by taking the first.
AnswerValidTakesFirst(answer) ==
    ~(answer.null \/ ~answer.hasFeatures \/ Len(answer.features) = 0)

\* not (not resp or "features" not in resp or len(resp["features"]) != 1)
AnswerValid(answer) ==
    ~(answer.null \/ ~answer.hasFeatures \/ Len(answer.features) # 1)

\* pystac.Item.from_dict(resp["features"][0])
ItemFromDict(feature) == [ id |-> feature.id, collection |-> feature.collection ]

Restrict(f, S) == [ x \in S |-> f[x] ]

Reverse(seq) == [ i \in 1..Len(seq) |-> seq[Len(seq) + 1 - i] ]

MoveToEnd(seq, k) == SelectSeq(seq, LAMBDA x : x # k) \o <<k>>

\* TTLCache.expire(time): drop every entry with not (time < expires).
TTLExpire(st, t) ==
    LET keep == { k \in DOMAIN st.data : t < st.data[k].expires }
    IN  [ data |-> Restrict(st.data, keep),
          links |-> SelectSeq(st.links, LAMBDA x : x \in keep) ]

\* A plausible slip: an entry past its expiry is still served.
TTLGetItemIgnoresExpiry(st, k, t) ==
    IF k \in DOMAIN st.data
    THEN [ hit |-> TRUE, item |-> st.data[k].item, links |-> MoveToEnd(st.links, k) ]
    ELSE [ hit |-> FALSE, item |-> NoItem, links |-> st.links ]

\* TTLCache.__getitem__: the access order is touched, an expired entry is missing.
TTLGetItem(st, k, t) ==
    IF k \in DOMAIN st.data
    THEN IF t < st.data[k].expires
         THEN [ hit |-> TRUE, item |-> st.data[k].item, links |-> MoveToEnd(st.links, k) ]
         ELSE [ hit |-> FALSE, item |-> NoItem, links |-> MoveToEnd(st.links, k) ]
    ELSE [ hit |-> FALSE, item |-> NoItem, links |-> st.links ]

\* TTLCache.popitem: the least recently used entry goes.
PopItem(st) ==
    LET k == Head(st.links)
    IN  [ data |-> Restrict(st.data, DOMAIN st.data \ {k}), links |-> Tail(st.links) ]

\* Cache.__setitem__: while currsize + size > maxsize: popitem()
RECURSIVE MakeRoom(_)
MakeRoom(st) ==
    IF Cardinality(DOMAIN st.data) + 1 > MaxSize /\ st.links # <<>>
    THEN MakeRoom(PopItem(st))
    ELSE st

\* A plausible slip: the size bound is not enforced on insertion.
TTLSetItemUnbounded(st, k, item, t) ==
    LET live == TTLExpire(st, t)
    IN  [ data |-> [ x \in DOMAIN live.data \cup {k} |->
                       IF x = k THEN [ item |-> item, expires |-> t + TTL ] ELSE live.data[x] ],
          links |-> MoveToEnd(live.links, k) ]

\* TTLCache.__setitem__: expire, make room for a new key, store, link last
\* with expires = time + ttl.
TTLSetItem(st, k, item, t) ==
    LET live == TTLExpire(st, t)
        room == IF k \in DOMAIN live.data THEN live ELSE MakeRoom(live)
    IN  [ data |-> [ x \in DOMAIN room.data \cup {k} |->
                       IF x = k THEN [ item |-> item, expires |-> t + TTL ] ELSE room.data[x] ],
          links |-> MoveToEnd(room.links, k) ]

CacheState == [ data |-> cache, links |-> links ]

\* wrapper: k = key(...); try: return cache[k]; except KeyError: pass
CheckCache(c, k) ==
    /\ pc[c] = "idle"
    /\ LET g == TTLGetItem(CacheState, HashKey(Pool(c), k[1], k[2]), now)
       IN  /\ links' = g.links
           /\ pc' = [pc EXCEPT ![c] = IF g.hit THEN "idle" ELSE "miss"]
           /\ cseen' = [cseen EXCEPT ![c] = IF g.hit THEN "hit" ELSE "miss"]
           /\ cresult' = [cresult EXCEPT ![c] = IF g.hit THEN ItemResult(g.item) ELSE NoResult]
    /\ ckey' = [ckey EXCEPT ![c] = k]
    /\ nfetch' = [nfetch EXCEPT ![c] = 0]
    /\ cftime' = [cftime EXCEPT ![c] = 0]
    /\ cquery' = [cquery EXCEPT ![c] = NoQuery]
    /\ cfetched' = [cfetched EXCEPT ![c] = NoAnswer]
    /\ UNCHANGED <<now, cache, catalog, regVars, cmVars, compVars, cogVars>>

\* get_stac_item: the query to the catalog
Fetch(c) ==
    /\ pc[c] = "miss"
    /\ LET search == ItemSearch(ckey[c][1], ckey[c][2])
       IN  /\ cquery' = [cquery EXCEPT ![c] = search]
           /\ cfetched' = [cfetched EXCEPT ![c] = CatalogSearch(search)]
    /\ nfetch' = [nfetch EXCEPT ![c] = nfetch[c] + 1]
    /\ cftime' = [cftime EXCEPT ![c] = now]
    /\ pc' = [pc EXCEPT ![c] = "fetched"]
    /\ UNCHANGED <<now, cache, links, ckey, cseen, cresult, catalog, regVars, cmVars, compVars, cogVars>>

FinishCachesFailure(c) ==
    /\ pc[c] = "fetched"
    /\ LET item == IF AnswerValid(cfetched[c]) THEN ItemFromDict(cfetched[c].features[1])
                   ELSE NoItem
           st == TTLSetItem(CacheState, HashKey(Pool(c), ckey[c][1], ckey[c][2]), item, now)
       IN  /\ cache' = st.data
           /\ links' = st.links
           /\ cresult' = [cresult EXCEPT ![c] =
                             IF AnswerValid(cfetched[c]) THEN ItemResult(item)
                             ELSE ItemNotFound(ckey[c][1], ckey[c][2])]
    /\ pc' = [pc EXCEPT ![c] = "idle"]
    /\ cftime' = [cftime EXCEPT ![c] = 0]
    /\ UNCHANGED <<now, ckey, cseen, cquery, cfetched, nfetch, catalog, regVars, cmVars, compVars, cogVars>>

\* get_stac_item: 404 or the Item; wrapper: cache[k] = v; return v
Finish(c) ==
    /\ pc[c] = "fetched"
    /\ IF AnswerValid(cfetched[c])
       THEN LET item == ItemFromDict(cfetched[c].features[1])
                st == TTLSetItem(CacheState, HashKey(Pool(c), ckey[c][1], ckey[c][2]), item, now)
            IN  /\ cache' = st.data
                /\ links' = st.links
                /\ cresult' = [cresult EXCEPT ![c] = ItemResult(item)]
       ELSE /\ cresult' = [cresult EXCEPT ![c] = ItemNotFound(ckey[c][1], ckey[c][2])]
            /\ UNCHANGED <<cache, links>>
    /\ pc' = [pc EXCEPT ![c] = "idle"]
    /\ cftime' = [cftime EXCEPT ![c] = 0]
    /\ UNCHANGED <<now, ckey, cseen, cquery, cfetched, nfetch, catalog, regVars, cmVars, compVars, cogVars>>

\* The timer advances.
Tick ==
    /\ now < MaxTime
    /\ now' = now + 1
    /\ UNCHANGED <<cache, links, pc, ckey, cseen, cquery, cfetched, cresult, nfetch, cftime,
                   catalog, regVars, cmVars, compVars, cogVars>>

\* The catalog ingests the item it did not hold.
CatalogIngest ==
    /\ catalog[<<"c", "late">>].features = <<>>
    /\ catalog' = [catalog EXCEPT ![<<"c", "late">>] = Answer(FALSE, TRUE, <<Feature(<<"c", "late">>)>>)]
    /\ UNCHANGED <<now, cache, links, pc, ckey, cseen, cquery, cfetched, cresult, nfetch, cftime,
                   regVars, cmVars, compVars, cogVars>>

\* get_stac_item: the query raises (the catalog cannot be reached)
QueryFails(c) ==
    /\ pc[c] = "miss"
    /\ cquery' = [cquery EXCEPT ![c] = ItemSearch(ckey[c][1], ckey[c][2])]
    /\ nfetch' = [nfetch EXCEPT ![c] = nfetch[c] + 1]
    /\ cresult' = [cresult EXCEPT ![c] = QueryError]
    /\ pc' = [pc EXCEPT ![c] = "idle"]
    /\ UNCHANGED <<now, cache, links, ckey, cseen, cfetched, cftime, catalog, regVars, cmVars,
                   compVars, cogVars>>

\* The items requested where lookups fail and later succeed
LookupKeys == { <<"c", i>> : i \in {"i1", "late", "dup"} }

NextLookup ==
    \/ \E c \in Callers, k \in LookupKeys : CheckCache(c, k)
    \/ \E c \in Callers : Fetch(c)
    \/ \E c \in Callers : Finish(c)
    \/ \E c \in Callers : QueryFails(c)
    \/ Tick
    \/ CatalogIngest

NextCache ==
    \/ \E c \in Callers, k \in Keys : CheckCache(c, k)
    \/ \E c \in Callers : Fetch(c)
    \/ \E c \in Callers : Finish(c)
    \/ Tick
    \/ CatalogIngest

(***************************************************************************)
(* ColorMapParams                                                          *)
(***************************************************************************)
Levels == 256

TopLevel == 255

ColorMapNames == { "cfastie", "viridis" }

\* A colour as JSON writes it: a string, or a list of integers.
ColorStr(chars) == [ form |-> "str", chars |-> chars, items |-> <<>> ]

ColorList(items) == [ form |-> "list", chars |-> <<>>, items |-> items ]

\* The value of the colormap query parameter: not given, or a text of one
\* of the shapes json.loads tells apart.
JsonText(shape, members, elements, chars, number) ==
    [ shape |-> shape, members |-> members, elements |-> elements,
      chars |-> chars, number |-> number ]

NoColormap == JsonText("absent", <<>>, <<>>, <<>>, 0)

EmptyText == JsonText("empty", <<>>, <<>>, <<>>, 0)

MalformedText == JsonText("malformed", <<>>, <<>>, <<>>, 0)

ObjectText(members) == JsonText("object", members, <<>>, <<>>, 0)

ArrayText(elements) == JsonText("array", <<>>, elements, <<>>, 0)

StringText(chars) == JsonText("string", <<>>, <<>>, chars, 0)

NumberText(n) == JsonText("number", <<>>, <<>>, <<>>, n)

Member(key, value) == [ key |-> key, value |-> value ]

PairElement(lo, hi, value) == [ pair |-> TRUE, inter |-> <<lo, hi>>, value |-> value ]

NumberElement(n) == [ pair |-> FALSE, inter |-> <<n>>, value |-> ColorList(<<>>) ]

HexDigits == <<"0", "1", "2", "3", "4", "5", "6", "7", "8", "9", "a", "b", "c", "d", "e", "f">>

IsHexDigit(ch) == \E i \in DOMAIN HexDigits : HexDigits[i] = ch

HexValue(ch) == (CHOOSE i \in DOMAIN HexDigits : HexDigits[i] = ch) - 1

IsDecDigit(ch) == \E i \in 1..10 : HexDigits[i] = ch

Raised(exc) == [ ok |-> FALSE, exc |-> exc, value |-> <<>> ]

Value(v) == [ ok |-> TRUE, exc |-> "", value |-> v ]

RECURSIVE DecValue(_, _)
DecValue(chars, acc) ==
    IF chars = <<>> THEN acc
    ELSE DecValue(Tail(chars), 10 * acc + HexValue(Head(chars)))

\* int(k) on an object key
IntOf(chars) ==
    IF chars # <<>> /\ \A i \in DOMAIN chars : IsDecDigit(chars[i])
    THEN Value(DecValue(chars, 0))
    ELSE Raised("ValueError")

\* rio_tiler.colormap.parse_color
ParseColor(v) ==
    LET hex == Tail(v.chars)
        matches ==
            /\ v.chars # <<>> /\ Head(v.chars) = "#"
            /\ Len(hex) \in {3, 4, 6, 8}
            /\ \A i \in DOMAIN hex : IsHexDigit(hex[i])
        parsed ==
            IF Len(hex) \in {3, 4}
            THEN [ i \in 1..Len(hex) |-> 16 * HexValue(hex[i]) + HexValue(hex[i]) ]
            ELSE [ i \in 1..(Len(hex) \div 2) |->
                       16 * HexValue(hex[2 * i - 1]) + HexValue(hex[2 * i]) ]
        rgba == IF v.form = "str" THEN parsed ELSE v.items
    IN  IF v.form = "str" /\ ~matches THEN Raised("AttributeError")
        ELSE IF Len(rgba) > 4 \/ Len(rgba) < 3 THEN Raised("ValueError")
        ELSE IF Len(rgba) = 3 THEN Value(rgba \o <<TopLevel>>)
        ELSE Value(rgba)

\* d[k] = v on a dict kept as its items in insertion order
DictSet(items, k, v) ==
    IF \E i \in DOMAIN items : items[i][1] = k
    THEN [ i \in DOMAIN items |-> IF items[i][1] = k THEN <<k, v>> ELSE items[i] ]
    ELSE Append(items, <<k, v>>)

\* object_hook: {int(k): parse_color(v) for k, v in x.items()}
RECURSIVE ObjectHook(_, _)
ObjectHook(members, acc) ==
    IF members = <<>> THEN Value(acc)
    ELSE LET k == IntOf(Head(members).key)
             v == ParseColor(Head(members).value)
         IN  IF ~k.ok THEN Raised(k.exc)
             ELSE IF ~v.ok THEN Raised(v.exc)
             ELSE ObjectHook(Tail(members), DictSet(acc, k.value, v.value))

\* [(tuple(inter), parse_color(v)) for (inter, v) in cm] on a JSON array
RECURSIVE IntervalList(_, _)
IntervalList(elements, acc) ==
    IF elements = <<>> THEN Value(acc)
    ELSE LET e == Head(elements)
             v == ParseColor(e.value)
         IN  IF ~e.pair THEN Raised("TypeError")
             ELSE IF ~v.ok THEN Raised(v.exc)
             ELSE IntervalList(Tail(elements), Append(acc, <<e.inter, v.value>>))

CmResult(kind, status, detail, name, items, number) ==
    [ kind |-> kind, status |-> status, detail |-> detail, name |-> name,
      items |-> items, number |-> number ]

CmIdle == CmResult("idle", 0, "", None, <<>>, 0)

CmNone == CmResult("none", 0, "", None, <<>>, 0)

\* cmap.get(colormap_name.value)
CmapGet(name) == CmResult("registered", 0, "", name, <<>>, 0)

CmDict(items) == CmResult("dict", 0, "", None, items, 0)

CmIntervals(items) == CmResult("intervals", 0, "", None, items, 0)

CmNumber(n) == CmResult("number", 0, "", None, <<>>, n)

CmBadRequest == CmResult("error", 400, "Could not parse the colormap value.", None, <<>>, 0)

CmUnhandled(exc) == CmResult("error", 500, exc, None, <<>>, 0)

\* json.loads(colormap, object_hook=...) followed by the Sequence branch
ParseColormap(colormap) ==
    CASE colormap.shape = "malformed" -> Raised("JSONDecodeError")
      [] colormap.shape = "object" ->
            LET d == ObjectHook(colormap.members, <<>>)
            IN  IF d.ok THEN Value(CmDict(d.value)) ELSE d
      [] colormap.shape = "array" ->
            LET l == IntervalList(colormap.elements, <<>>)
            IN  IF l.ok THEN Value(CmIntervals(l.value)) ELSE l
      [] colormap.shape = "string" ->
            IF colormap.chars = <<>> THEN Value(CmIntervals(<<>>)) ELSE Raised("ValueError")
      [] OTHER -> Value(CmNumber(colormap.number))

Roundings == { "exact", "low", "alternate" }

\* Whether a level whose exact value is a whole number comes out one lower:
\* the lookup table holds floats near c / 255, and astype('uint8') truncates.
RoundsLow(i) ==
    \/ rounding = "low"
    \/ rounding = "alternate" /\ i % 2 = 1

\* One channel of one level of the lookup table LinearSegmentedColormap
\* builds from the stops, scaled back to 0..255 and truncated.
LinearLevel(stops, i, ch) ==
    IF i = 0 THEN stops[1][2][ch]
    ELSE IF i = Levels - 1 THEN stops[Len(stops)][2][ch]
    ELSE LET j == CHOOSE n \in 2..Len(stops) : stops[n - 1][1] < i /\ i <= stops[n][1]
             k0 == stops[j - 1][1]
             k1 == stops[j][1]
             c0 == stops[j - 1][2][ch]
             c1 == stops[j][2][ch]
             num == c0 * (k1 - k0) + (i - k0) * (c1 - c0)
             whole == num % (k1 - k0) = 0
             sloped == c0 # c1 \/ (i = k1 /\ stops[j + 1][2][ch] # c1)
         IN  IF whole /\ sloped /\ num > 0 /\ RoundsLow(i)
             THEN (num \div (k1 - k0)) - 1
             ELSE num \div (k1 - k0)

\* The colormap_type == linear branch
LinearColormap(cm) ==
    LET stops == cm.items
        n == Len(stops)
    IN  IF cm.kind # "dict" THEN CmUnhandled("AttributeError")
        ELSE IF n = 0 THEN CmUnhandled("IndexError")
        ELSE IF \E s \in DOMAIN stops : \E ch \in 1..4 : stops[s][2][ch] \notin 0..TopLevel
             THEN CmUnhandled("ValueError")
        ELSE IF stops[1][1] # 0 \/ stops[n][1] # TopLevel THEN CmUnhandled("ValueError")
        ELSE IF \E s \in 2..n : stops[s][1] < stops[s - 1][1] THEN CmUnhandled("ValueError")
        ELSE CmDict([ i \in 1..Levels |->
                        <<i - 1, [ ch \in 1..4 |-> LinearLevel(stops, i - 1, ch) ]>> ])

ColorMapParamsExplicitFirst(colormap_name, colormap, colormap_type) ==
    IF colormap.shape \notin {"absent", "empty"}
    THEN LET parsed == ParseColormap(colormap)
         IN  IF ~parsed.ok
             THEN IF parsed.exc = "JSONDecodeError" THEN CmBadRequest ELSE CmUnhandled(parsed.exc)
             ELSE IF colormap_type = "linear" THEN LinearColormap(parsed.value)
             ELSE parsed.value
    ELSE IF colormap_name # None THEN CmapGet(colormap_name)
    ELSE CmNone

ColorMapParams(colormap_name, colormap, colormap_type) ==
    IF colormap_name # None THEN CmapGet(colormap_name)
    ELSE IF colormap.shape \notin {"absent", "empty"}
    THEN LET parsed == ParseColormap(colormap)
         IN  IF ~parsed.ok
             THEN IF parsed.exc = "JSONDecodeError" THEN CmBadRequest ELSE CmUnhandled(parsed.exc)
             ELSE IF colormap_type = "linear" THEN LinearColormap(parsed.value)
             ELSE parsed.value
    ELSE CmNone

Black == ColorStr(<<"#", "0", "0", "0", "0", "0", "0">>)

White == ColorStr(<<"#", "f", "f", "f">>)

HalfRed == ColorList(<<255, 0, 0, 128>>)

Blue == ColorList(<<0, 0, 255>>)

\* {"0": [0, 0, 0, 255], "255": [255, 255, 255, 255]}
TwoStopText ==
    ObjectText(<< Member(<<"0">>, ColorList(<<0, 0, 0, 255>>)),
                  Member(<<"2", "5", "5">>, ColorList(<<255, 255, 255, 255>>)) >>)

ColormapInputs ==
    { NoColormap, EmptyText, MalformedText,
      ObjectText(<< Member(<<"0">>, Black), Member(<<"2", "5", "5">>, White) >>),
      TwoStopText,
      ObjectText(<< Member(<<"0">>, Blue), Member(<<"1", "0", "0">>, HalfRed),
                    Member(<<"2", "5", "5">>, White) >>),
      ObjectText(<< Member(<<"2", "5", "5">>, White), Member(<<"0">>, Black) >>),
      ObjectText(<< Member(<<"1">>, Blue), Member(<<"2">>, HalfRed) >>),
      ObjectText(<< Member(<<"1">>, Blue), Member(<<"1">>, White) >>),
      ObjectText(<< Member(<<"x">>, Black) >>),
      ObjectText(<< Member(<<"1">>, ColorStr(<<"r", "e", "d">>)) >>),
      ObjectText(<< Member(<<"1">>, ColorList(<<1, 2>>)) >>),
      ObjectText(<<>>),
      ArrayText(<< PairElement(0, 100, Black), PairElement(100, 256, Blue) >>),
      ArrayText(<< NumberElement(1) >>),
      StringText(<<"a", "b">>),
      NumberText(5) }

ColormapNameInputs == ColorMapNames \cup { None }

ColormapTypeInputs == { "explicit", "linear" }

\* One request through the dependency
ColorMap ==
    /\ cmOut.kind = "idle"
    /\ cmOut' = ColorMapParams(cmIn.name, cmIn.colormap, cmIn.type)
    /\ UNCHANGED <<cmIn, rounding, regVars, cacheVars, compVars, cogVars>>

NextColorMap == ColorMap

(***************************************************************************)
(* Compositing of an ordered asset list into one tile                      *)
(***************************************************************************)
MaxAssets == 3

Pixels == 1..3

Unfilled == "unfilled"

\* The pixels of the tile each item has data for
Footprint(id) ==
    CASE id = "A" -> {1, 2}
      [] id = "B" -> {2, 3}
      [] id = "C" -> {1, 2, 3}
      [] OTHER    -> {}

CompositeItems ==
    { [id |-> i, collection |-> "noaa", cells |-> {"e"}] : i \in {"A", "B", "C", "D"} }

\* What the external search can return: items without repetition, in any order
SearchOutputs ==
    { out \in UNION { [1..n -> CompositeItems] : n \in 1..MaxAssets } :
        \A i, j \in DOMAIN out : i # j => out[i] # out[j] }

\* The exitwhenfull query parameter: unset, true or false
ExitWhenFullInputs == { None, "true", "false" }

\* Unset leaves the store's default, which is true
ExitWhenFull(param) == param # "false"

Full(tile) == \A p \in Pixels : tile[p] # Unfilled

FillOverwrites(tile, asset) ==
    [ p \in Pixels |-> IF p \in Footprint(asset.id) THEN asset.id ELSE tile[p] ]

\* First match wins: only pixels nothing has filled take the asset's value.
Fill(tile, asset) ==
    [ p \in Pixels |->
        IF tile[p] = Unfilled /\ p \in Footprint(asset.id) THEN asset.id ELSE tile[p] ]

\* Read the next asset of the list into the tile
ReadAsset ==
    /\ compPc = "running"
    /\ Len(compRead) < Len(compAssets)
    /\ ~(ExitWhenFull(compExit) /\ Full(compTile))
    /\ compTile' = Fill(compTile, compAssets[Len(compRead) + 1])
    /\ compRead' = Append(compRead, compAssets[Len(compRead) + 1].id)
    /\ UNCHANGED <<compSearch, compAssets, compExit, compPc, regVars, cacheVars, cmVars, cogVars>>

\* Every pixel is filled and exitwhenfull holds: the rest of the list is left
StopWhenFull ==
    /\ compPc = "running"
    /\ Len(compRead) < Len(compAssets)
    /\ ExitWhenFull(compExit) /\ Full(compTile)
    /\ compPc' = "done"
    /\ UNCHANGED <<compSearch, compAssets, compExit, compTile, compRead, regVars, cacheVars,
                   cmVars, cogVars>>

\* The list is exhausted
EndOfAssets ==
    /\ compPc = "running"
    /\ Len(compRead) = Len(compAssets)
    /\ compPc' = "done"
    /\ UNCHANGED <<compSearch, compAssets, compExit, compTile, compRead, regVars, cacheVars,
                   cmVars, cogVars>>

NextComposite == ReadAsset \/ StopWhenFull \/ EndOfAssets

(***************************************************************************)
(* render_cog                                                              *)
(***************************************************************************)
\* An optional number: None, or a value
Unset == [ set |-> FALSE, value |-> 0 ]

Some(v) == [ set |-> TRUE, value |-> v ]

CogPixels == 1..2

\* data: per pixel the stored value and whether the mask hides it
DataInputs == [ CogPixels -> [ value : {3, 7}, masked : BOOLEAN ] ]

NodataInputs == { Unset, Some(0), Some(9) }

ProfileNodataInputs == { Unset, Some(5) }

\* What dst.write does with a masked array depends on the rasterio of the
\* build: it writes the stored values, or fills the masked pixels with the
\* dataset's nodata when there is one.
Writers == { "stored", "filled" }

\* np.ma.is_masked(data)
IsMasked(data) == \E p \in DOMAIN data : data[p].masked

\* `nodata` as a condition
Truthy(nodata) == nodata.set /\ nodata.value # 0

\* data.filled(nodata)
Filled(data, nodata) ==
    [ p \in DOMAIN data |->
        [ value |-> IF data[p].masked THEN nodata.value ELSE data[p].value, masked |-> FALSE ] ]

\* dst.write(data)
Write(data, nodata, writer) ==
    IF writer = "filled" /\ nodata.set
    THEN [ p \in DOMAIN data |-> IF data[p].masked THEN nodata.value ELSE data[p].value ]
    ELSE [ p \in DOMAIN data |-> data[p].value ]

CogResult(kind, pixels, nodata) == [ kind |-> kind, pixels |-> pixels, nodata |-> nodata ]

CogIdle == CogResult("idle", <<>>, Unset)

render_cog(data, profile, nodata, writer) ==
    LET filled == IF IsMasked(data) /\ Truthy(nodata) THEN Filled(data, nodata) ELSE data
        updated == nodata
    IN  CogResult("written", Write(filled, updated, writer), updated)

RenderCog ==
    /\ cogOut.kind = "idle"
    /\ cogOut' = render_cog(cogIn.data, cogIn.profile, cogIn.nodata, cogIn.writer)
    /\ UNCHANGED <<cogIn, regVars, cacheVars, cmVars, compVars>>

NextCog == RenderCog

EmptyCache == [ k \in {} |-> [ item |-> NoItem, expires |-> 0 ] ]

InitCacheVars ==
    /\ now = 0
    /\ cache = EmptyCache
    /\ links = <<>>
    /\ pc = [c \in Callers |-> "idle"]
    /\ ckey = [c \in Callers |-> <<"c", "i1">>]
    /\ cseen = [c \in Callers |-> "none"]
    /\ cquery = [c \in Callers |-> NoQuery]
    /\ cfetched = [c \in Callers |-> NoAnswer]
    /\ cresult = [c \in Callers |-> NoResult]
    /\ nfetch = [c \in Callers |-> 0]
    /\ cftime = [c \in Callers |-> 0]
    /\ catalog = InitialCatalog

InitRegVars ==
    /\ registry = {}
    /\ regCount = 0
    /\ regLog = {}
    /\ resp = OkResp(Req("none", UnknownId, {}, FALSE), EmptyDict, EmptyDict, <<>>)

InitCmVars ==
    /\ cmIn = [ name |-> None, colormap |-> NoColormap, type |-> "explicit" ]
    /\ cmOut = CmIdle
    /\ rounding = "exact"

InitCogVars ==
    /\ cogIn = [ data |-> [ p \in CogPixels |-> [ value |-> 3, masked |-> FALSE ] ],
                 profile |-> Unset, nodata |-> Unset, writer |-> "stored" ]
    /\ cogOut = CogIdle

InitCompVars ==
    /\ compSearch = <<>>
    /\ compAssets = <<>>
    /\ compExit = None
    /\ compTile = [ p \in Pixels |-> Unfilled ]
    /\ compRead = <<>>
    /\ compPc = "idle"

\* The cache as one earlier item request leaves it.
InitWarmCacheVars ==
    /\ now = 0
    /\ cache = TTLSetItem([data |-> EmptyCache, links |-> <<>>], <<"c", "i1">>,
                          ItemFromDict(Feature(<<"c", "i1">>)), 0).data
    /\ links = << <<"c", "i1">> >>
    /\ pc = [c \in Callers |-> "idle"]
    /\ ckey = [c \in Callers |-> <<"c", "i1">>]
    /\ cseen = [c \in Callers |-> IF c = "t1" THEN "miss" ELSE "none"]
    /\ cquery = [c \in Callers |-> IF c = "t1" THEN ItemSearch("c", "i1") ELSE NoQuery]
    /\ cfetched = [c \in Callers |-> IF c = "t1" THEN InitialCatalog[<<"c", "i1">>] ELSE NoAnswer]
    /\ cresult = [c \in Callers |-> IF c = "t1" THEN ItemResult(ItemFromDict(Feature(<<"c", "i1">>)))
                                    ELSE NoResult]
    /\ nfetch = [c \in Callers |-> IF c = "t1" THEN 1 ELSE 0]
    /\ cftime = [c \in Callers |-> 0]
    /\ catalog = InitialCatalog

InitRegistry == InitRegVars /\ (InitCacheVars \/ InitWarmCacheVars) /\ InitCmVars /\ InitCompVars /\ InitCogVars

SpecRegistry == InitRegistry /\ [][NextRegistry]_vars

InitCache == InitRegVars /\ InitCacheVars /\ InitCmVars /\ InitCompVars /\ InitCogVars

SpecCache == InitCache /\ [][NextCache]_vars

InitLookup ==
    /\ InitRegVars /\ (InitCacheVars \/ InitWarmCacheVars)
    /\ InitCmVars /\ InitCompVars /\ InitCogVars

SpecLookup == InitLookup /\ [][NextLookup]_vars

InitColorMap ==
    /\ InitRegVars /\ InitCacheVars /\ InitCompVars /\ InitCogVars
    /\ cmIn \in [ name : ColormapNameInputs, colormap : ColormapInputs, type : ColormapTypeInputs ]
    /\ cmOut = CmIdle
    /\ rounding \in Roundings

SpecColorMap == InitColorMap /\ [][NextColorMap]_vars

InitComposite ==
    /\ InitRegVars /\ InitCacheVars /\ InitCmVars /\ InitCogVars
    /\ compSearch \in SearchOutputs
    /\ compAssets = MapAssets(compSearch)
    /\ compExit \in ExitWhenFullInputs
    /\ compTile = [ p \in Pixels |-> Unfilled ]
    /\ compRead = <<>>
    /\ compPc = "running"

SpecComposite == InitComposite /\ [][NextComposite]_vars

InitCog ==
    /\ InitRegVars /\ InitCacheVars /\ InitCmVars /\ InitCompVars
    /\ cogIn \in [ data : DataInputs, profile : ProfileNodataInputs, nodata : NodataInputs,
                    writer : Writers ]
    /\ cogOut = CogIdle

SpecCog == InitCog /\ [][NextCog]_vars

Init == InitRegistry \/ InitColorMap \/ InitComposite \/ InitCog

Next == NextRegistry \/ NextCache \/ NextLookup \/ NextColorMap \/ NextComposite \/ NextCog

Spec == Init /\ [][Next]_vars


(***************************************************************************)
(* Properties of the registry                                              *)
(***************************************************************************)
TypeMosaic == { <<"type", "mosaic">> }

FirstRegistration(id) ==
    CHOOSE n \in { r.n : r \in { x \in regLog : x.id = id } } :
        \A r \in regLog : r.id = id => n <= r.n

SearchIdOps == {"info", "point", "tile_assets", "tile", "statistics"}

C4_UnknownIdNotFound ==
    /\ [](( resp.req.op \in SearchIdOps /\ Lookup(resp.req.id) = {} ) =>
            /\ resp.kind = "NotFound" /\ resp.status = 404
            /\ resp.detail = <<"SearchId", resp.req.id, "not found">>
            /\ resp.assets = <<>>)
    /\ [][ (resp' # resp /\ resp'.req.op \in SearchIdOps /\ Lookup(resp'.req.id) = {}) =>
              (registry' = registry /\ cache' = cache /\ links' = links) ]_vars

\* C4 witness: a tile render on the never registered id, with a selector and
\* a cache that holds an item, after some search was registered.
C4_Witness ==
    /\ resp.req.op = "tile" /\ resp.req.selector /\ resp.req.id = UnknownId
    /\ resp.kind = "NotFound"
    /\ registry # {} /\ DOMAIN cache # {}

NoCoverage(row, region) ==
    \/ "bbox" \in DOMAIN row.search /\ BBoxCells(row.search["bbox"]) \cap region = {}
    \/ \A i \in DOMAIN CatalogItems : ~Matches(CatalogItems[i], row.search, region)

\* C9: for a registered searchid and a point or tile outside the search's
\* bounding box, or matching no item, the asset requests answer 200 with an
\* empty list, and a tile render (with a selector) ends in NoAssetFound, which
\* is not the NotFound of an unregistered searchid.
C9_NoCoverage ==
    \A row \in Lookup(resp.req.id) :
        NoCoverage(row, resp.req.region) =>
            /\ resp.req.op \in {"point", "tile_assets"} =>
                  resp.status = 200 /\ resp.kind = "ok" /\ resp.assets = <<>>
            /\ (resp.req.op = "tile" /\ resp.req.selector) =>
                  resp.kind = "NoAssetFound" /\ resp.kind # NotFoundResp(resp.req).kind

\* C9 witness: a tile render outside the bounding box of a registered search.
C9_Witness ==
    /\ resp.req.op = "tile" /\ resp.kind = "NoAssetFound"
    /\ \E row \in Lookup(resp.req.id) :
          "bbox" \in DOMAIN row.search /\ BBoxCells(row.search["bbox"]) \cap resp.req.region = {}


(***************************************************************************)
(* Properties of the item cache                                            *)
(***************************************************************************)
Snapshot(key) == [ id |-> key[2], collection |-> key[1] ]

OneFeature(answer) == ~answer.null /\ answer.hasFeatures /\ Len(answer.features) = 1

Returned(c) == pc[c] = "idle" /\ cseen[c] # "none"

Apart(t1, t2) == IF t1 < t2 THEN t2 - t1 ELSE t1 - t2

\* C5: within one time-to-live window get_stac_item queries the catalog
\* once per (collection, item): two callers that both miss before either
\* populates never both query.
C5_SingleFetchPerWindow ==
    \A c1, c2 \in Callers :
        ( c1 # c2 /\ pc[c1] = "fetched" /\ pc[c2] = "fetched" /\ ckey[c1] = ckey[c2]
          /\ OneFeature(cfetched[c1]) /\ OneFeature(cfetched[c2]) )
        => Apart(cftime[c1], cftime[c2]) >= TTL

\* C6: a call whose key has an entry younger than the time-to-live returns
\* the cached item and queries nothing; a call whose key is absent, or held
\* longer than the time-to-live, queries the catalog once for that item id
\* and collection, and the item it gets is stored under (collection, item)
\* with expiry now + ttl and returned.
C6_HitAndExpiry ==
    [][ \A c \in Callers :
          /\ \A k \in Keys : CheckCache(c, k) =>
                /\ (k \in DOMAIN cache /\ now < cache[k].expires) =>
                      /\ cresult'[c] = ItemResult(cache[k].item)
                      /\ nfetch'[c] = 0 /\ pc'[c] = "idle"
                /\ (k \notin DOMAIN cache \/ now > cache[k].expires) =>
                      /\ pc'[c] = "miss" /\ nfetch'[c] = 0
          /\ Fetch(c) =>
                /\ nfetch'[c] = 1 /\ pc'[c] = "fetched"
                /\ cquery'[c] = [ ids |-> <<ckey[c][2]>>, collections |-> <<ckey[c][1]>> ]
                /\ cfetched'[c] = catalog[ckey[c]]
          /\ (Finish(c) /\ OneFeature(cfetched[c])) =>
                /\ ckey[c] \in DOMAIN cache'
                /\ cache'[ckey[c]] = [ item |-> Snapshot(ckey[c]), expires |-> now + TTL ]
                /\ cresult'[c] = ItemResult(Snapshot(ckey[c]))
                /\ nfetch'[c] = 1 /\ pc'[c] = "idle"
      ]_vars

\* C6 witness: past the first time-to-live, one caller was served an item
\* from the cache and another, having missed it, stored it afresh.
C6_Witness ==
    \E c1, c2 \in Callers :
        /\ c1 # c2 /\ ckey[c1] = ckey[c2] /\ Returned(c1) /\ Returned(c2)
        /\ cseen[c1] = "hit" /\ cresult[c1].kind = "item" /\ nfetch[c1] = 0
        /\ cseen[c2] = "miss" /\ cresult[c2].kind = "item" /\ nfetch[c2] = 1
        /\ now >= TTL /\ ckey[c2] \in DOMAIN cache /\ cache[ckey[c2]].expires = now + TTL

InsertsNewKeyAtCapacity(c) ==
    /\ Finish(c) /\ OneFeature(cfetched[c])
    /\ ckey[c] \notin DOMAIN cache
    /\ Cardinality(DOMAIN cache) = MaxSize

ExpiredKeys == { k \in DOMAIN cache : ~(now < cache[k].expires) }

\* C7 as stated: an insertion of a new key at capacity evicts exactly one
\* entry, an expired one if there is one and the least recently used
\* otherwise.
C7_ExactlyOneEvicted ==
    [][ \A c \in Callers : InsertsNewKeyAtCapacity(c) =>
          /\ Cardinality(DOMAIN cache \ DOMAIN cache') = 1
          /\ (ExpiredKeys # {} => (DOMAIN cache \ DOMAIN cache') \subseteq ExpiredKeys)
          /\ (ExpiredKeys = {} => (DOMAIN cache \ DOMAIN cache') = { Head(links) })
          /\ ckey[c] \in DOMAIN cache'
      ]_vars

\* C7 amended: the cache never holds more than maxsize entries; an insertion
\* of a new key at capacity first drops every expired entry, and only when
\* none is expired evicts one entry, the least recently used; the new entry
\* is present afterwards.
C7_CacheBound ==
    /\ [](Cardinality(DOMAIN cache) <= MaxSize)
    /\ [][ \A c \in Callers : InsertsNewKeyAtCapacity(c) =>
             /\ (DOMAIN cache \ DOMAIN cache') =
                    (IF ExpiredKeys # {} THEN ExpiredKeys ELSE { Head(links) })
             /\ DOMAIN cache' = (DOMAIN cache \ (DOMAIN cache \ DOMAIN cache')) \cup { ckey[c] }
             /\ Cardinality(DOMAIN cache') <= MaxSize
         ]_vars

\* C7 witness: before anything can have expired the cache is full, a caller
\* has just stored its item, and the item handed to another caller is no
\* longer held: the least recently used entry was evicted.
C7_Witness ==
    \E c1, c2 \in Callers :
        /\ c1 # c2 /\ now < TTL /\ Cardinality(DOMAIN cache) = MaxSize
        /\ Returned(c1) /\ cseen[c1] = "miss" /\ cresult[c1].kind = "item"
        /\ ckey[c1] \in DOMAIN cache /\ Head(Reverse(links)) = ckey[c1]
        /\ Returned(c2) /\ cresult[c2].kind = "item" /\ ckey[c2] \notin DOMAIN cache

\* C8: a call that queried the catalog returns an Item exactly when the
\* answer holds one feature; with no answer, no feature list, no feature or
\* more than one, it fails with 404 and a message naming the item and the
\* collection.
C8_ItemLookupFailure ==
    \A c \in Callers :
        (Returned(c) /\ cseen[c] = "miss") =>
            LET a == cfetched[c]
                n == IF a.null \/ ~a.hasFeatures THEN 0 ELSE Len(a.features)
            IN  /\ n = 1 => cresult[c] = ItemResult(Snapshot(ckey[c]))
                /\ n # 1 =>
                      /\ cresult[c].kind = "NotFound" /\ cresult[c].status = 404
                      /\ cresult[c].detail =
                            <<"No item", ckey[c][2], "found in", ckey[c][1], "collection">>
                      /\ cresult[c].item = NoItem

\* C8 witness: the catalog answered with two features and the call failed.
C8_Witness ==
    \E c \in Callers :
        /\ Returned(c) /\ cseen[c] = "miss"
        /\ Len(cfetched[c].features) = 2 /\ cresult[c].kind = "NotFound"


(***************************************************************************)
(* Properties of ColorMapParams                                            *)
(***************************************************************************)
Supplied(colormap) == colormap.shape \notin { "absent", "empty" }

\* C10: whenever a name is given the outcome is the registered colormap of
\* that name, whatever the explicit string is (it is not parsed and raises
\* nothing); an outcome built from the explicit string occurs only when no
\* name is given, and is then what parsing that string gives; with neither a
\* name nor an explicit value the outcome is None.
C10_ColormapSelection ==
    cmOut.kind # "idle" =>
        /\ cmIn.name # None =>
              /\ cmOut.kind = "registered" /\ cmOut.name = cmIn.name
              /\ cmOut.status = 0 /\ cmOut.items = <<>>
        /\ cmOut.kind \in { "dict", "intervals", "number" } =>
              /\ cmIn.name = None /\ Supplied(cmIn.colormap)
              /\ (cmIn.type = "explicit" /\ cmIn.colormap.shape = "object") =>
                    \A i \in DOMAIN cmIn.colormap.members :
                        \E j \in DOMAIN cmOut.items :
                            /\ cmOut.items[j][1] = IntOf(cmIn.colormap.members[i].key).value
                            /\ \E m \in DOMAIN cmIn.colormap.members :
                                  /\ cmIn.colormap.members[m].key = cmIn.colormap.members[i].key
                                  /\ cmOut.items[j][2] =
                                         ParseColor(cmIn.colormap.members[m].value).value
        /\ cmOut.kind = "error" => (cmIn.name = None /\ Supplied(cmIn.colormap))
        /\ (cmIn.name = None /\ cmIn.colormap = NoColormap) => cmOut = CmNone
        /\ (cmIn.name = None /\ Supplied(cmIn.colormap)) => cmOut.kind \notin { "none", "registered" }

\* C10 witness: a name was given together with an explicit string that does
\* not parse, and the registered colormap of the name came back.
C10_Witness ==
    /\ cmIn.name = "viridis" /\ cmIn.colormap.shape = "malformed"
    /\ cmOut.kind = "registered" /\ cmOut.name = "viridis"


Unparseable(in) ==
    \/ in.colormap.shape = "malformed"
    \/ /\ in.colormap.shape = "object"
       /\ \E i \in DOMAIN in.colormap.members : ~IntOf(in.colormap.members[i].key).ok
    \/ in.type = "linear" /\ in.colormap.shape = "array"

\* C11: with no name given, an explicit colormap string that cannot be
\* parsed into a colormap (malformed JSON, a key that is not an integer, a
\* shape that does not fit the requested kind) ends in the client input error
\* 400 'Could not parse the colormap value.', in no other failure, and
\* returns no mapping.
C11_ColormapInputErrors ==
    (cmOut.kind # "idle" /\ cmIn.name = None /\ Unparseable(cmIn)) =>
        /\ cmOut.kind = "error" /\ cmOut.status = 400
        /\ cmOut.detail = "Could not parse the colormap value."
        /\ cmOut.items = <<>>


\* A linear specification: an object of at least two distinct integer stops,
\* each mapped to an RGB or RGBA value within 0..255.
LinearStops(in) ==
    /\ in.name = None /\ in.type = "linear" /\ in.colormap.shape = "object"
    /\ LET ms == in.colormap.members
       IN  /\ Len(ms) >= 2
           /\ \A i \in DOMAIN ms :
                 /\ IntOf(ms[i].key).ok /\ ParseColor(ms[i].value).ok
                 /\ \A ch \in 1..4 : ParseColor(ms[i].value).value[ch] \in 0..TopLevel
           /\ \A i, j \in DOMAIN ms : i # j => ms[i].key # ms[j].key

\* C12: every linear specification, in whatever order its stops are written
\* and whatever its smallest and largest keys are, comes back as a mapping
\* with exactly the keys 0..255; for {0: [0,0,0,255], 255: [255,255,255,255]}
\* entry 0 is the first stop, entry 255 the second, and every channel is
\* non-decreasing in the key.
C12_LinearExpansion ==
    (cmOut.kind # "idle" /\ LinearStops(cmIn)) =>
        /\ cmOut.kind = "dict"
        /\ Len(cmOut.items) = Levels
        /\ { cmOut.items[i][1] : i \in DOMAIN cmOut.items } = 0..(Levels - 1)
        /\ cmIn.colormap = TwoStopText =>
              /\ cmOut.items[1] = <<0, <<0, 0, 0, 255>>>>
              /\ cmOut.items[Levels] = <<255, <<255, 255, 255, 255>>>>
              /\ \A i \in 1..(Levels - 1) : \A ch \in 1..4 :
                    cmOut.items[i][2][ch] <= cmOut.items[i + 1][2][ch]


(***************************************************************************)
(* Properties of compositing                                               *)
(***************************************************************************)
Covering(p) == { i \in DOMAIN compAssets : p \in Footprint(compAssets[i].id) }

FirstCovering(p) == CHOOSE i \in Covering(p) : \A j \in Covering(p) : i <= j

CoveredBy(n) == UNION { Footprint(compAssets[i].id) : i \in 1..n }

FullAfter == { n \in DOMAIN compAssets : CoveredBy(n) = Pixels }

\* C13: the asset list is the search output in the search's order; the
\* assets are read strictly in list order; a filled pixel is never written
\* again, so it carries the id of the first asset of the list covering it;
\* and with exitwhenfull in force reading ends with the first asset after
\* which every pixel is filled, no later asset being read.
C13_CompositingOrder ==
    /\ [](/\ Len(compAssets) = Len(compSearch)
          /\ \A i \in DOMAIN compAssets : compAssets[i].id = compSearch[i].id
          /\ Len(compRead) <= Len(compAssets)
          /\ \A i \in DOMAIN compRead : compRead[i] = compAssets[i].id
          /\ \A p \in Pixels :
                /\ compTile[p] # Unfilled =>
                      /\ Covering(p) # {}
                      /\ compTile[p] = compAssets[FirstCovering(p)].id
                      /\ FirstCovering(p) <= Len(compRead)
                /\ (\E i \in Covering(p) : i <= Len(compRead)) => compTile[p] # Unfilled
          /\ (ExitWhenFull(compExit) /\ FullAfter # {}) =>
                /\ \A n \in FullAfter : Len(compRead) <= n
                /\ compPc = "done" => Len(compRead) \in FullAfter
          /\ (compPc = "done" /\ ~(ExitWhenFull(compExit) /\ FullAfter # {})) =>
                Len(compRead) = Len(compAssets))
    /\ [][ \A p \in Pixels : compTile[p] # Unfilled => compTile'[p] = compTile[p] ]_vars

\* C13 witness: with exitwhenfull set, reading ended after two of three
\* assets, a pixel both of them cover carries the first one's id, and the
\* third asset was never read.
C13_Witness ==
    /\ compPc = "done" /\ compExit = "true"
    /\ Len(compAssets) = 3 /\ Len(compRead) = 2
    /\ \E p \in Pixels :
          /\ p \in Footprint(compRead[1]) \cap Footprint(compRead[2])
          /\ compTile[p] = compRead[1]
    /\ Full(compTile)


(***************************************************************************)
(* Properties of render_cog                                                *)
(***************************************************************************)
\* C14: when a nodata value is supplied (0 included) every masked pixel of
\* the input is written as that value; the dataset's nodata is the supplied
\* value when there is one and the profile's own nodata when there is none.
C14_RenderCogNodata ==
    cogOut.kind = "written" =>
        /\ cogIn.nodata.set =>
              \A p \in CogPixels : cogIn.data[p].masked => cogOut.pixels[p] = cogIn.nodata.value
        /\ cogOut.nodata = (IF cogIn.nodata.set THEN cogIn.nodata ELSE cogIn.profile)


(***************************************************************************)
(* Properties of failed item lookups and of the cache key                  *)
(***************************************************************************)
\* C15: a call that ends in NotFound, or whose query raises, adds, replaces
\* and evicts nothing; the cache never holds a key whose lookups fail, so a
\* later call for it queries the catalog again and, once the catalog holds
\* the item, returns it; and an entry is found under (collection, item)
\* alone, so a caller gets the snapshot whatever pool it or the storing
\* caller came with.
C15_FailedLookupsNotCached ==
    /\ [](/\ \A k \in DOMAIN cache :
                /\ k \in Keys /\ OneFeature(catalog[k])
                /\ cache[k].item = Snapshot(k)
          /\ \A c \in Callers :
                /\ (Returned(c) /\ cseen[c] = "miss" /\ cresult[c].kind \in {"NotFound", "item"}) =>
                      (cresult[c] = ItemResult(Snapshot(ckey[c])) <=> OneFeature(cfetched[c]))
                /\ cresult[c].kind \in {"NotFound", "QueryFailed"} => cresult[c].item = NoItem)
    /\ [][ \A c \in Callers :
             /\ (Finish(c) /\ ~OneFeature(cfetched[c])) =>
                   /\ cache' = cache /\ links' = links
                   /\ cresult'[c].kind = "NotFound"
             /\ QueryFails(c) => (cache' = cache /\ links' = links)
             /\ \A k \in LookupKeys : CheckCache(c, k) =>
                   /\ cache' = cache
                   /\ k \notin DOMAIN cache => (pc'[c] = "miss" /\ cresult'[c] = NoResult)
                   /\ (k \in DOMAIN cache /\ now < cache[k].expires) =>
                         (pc'[c] = "idle" /\ cresult'[c] = ItemResult(cache[k].item))
         ]_vars

\* C15 witness: one caller was told NotFound for an item the catalog did not
\* hold yet; after the catalog took it in, the other caller's call queried
\* again, got the item and stored it, next to an entry stored before.
C15_Witness ==
    /\ Returned("t1") /\ ckey["t1"] = <<"c", "late">> /\ cresult["t1"].kind = "NotFound"
    /\ Returned("t2") /\ ckey["t2"] = <<"c", "late">> /\ cseen["t2"] = "miss"
    /\ nfetch["t2"] = 1 /\ cresult["t2"] = ItemResult(Snapshot(<<"c", "late">>))
    /\ DOMAIN cache = { <<"c", "i1">>, <<"c", "late">> }


====
